---------------------------- MODULE Spec2Model ----------------------------
(***************************************************************************)
(* Model of app/src-tauri/src/lib.rs: the archive extractor (extract_zip), *)
(* the parallel tree copier (copy_directory / copy_dir_recursive) and the  *)
(* archive content classifier (analyze_zip_content).                       *)
(*                                                                         *)
(* Entry names are sequences of one-character strings.  A filesystem path  *)
(* is a sequence of components (each a sequence of characters) below the   *)
(* root <<>>; the filesystem is the pair (dirs, files): the set of         *)
(* directories and a function from the paths of regular files to their     *)
(* contents.  Paths follow the Unix rules of std::path: '/' is the only     *)
(* separator, so a backslash is an ordinary character of a component.      *)
(*                                                                         *)
(* Each statement that takes the lock of a Mutex holds it for that         *)
(* statement only, so it is one step.  A rayon par_iter runs its closure   *)
(* once per item, on any worker thread, in any order: the closures of      *)
(* different items interleave freely.                                      *)
(***************************************************************************)
EXTENDS Integers, Sequences, FiniteSets, TLC

VARIABLES
    archive,          \* the ZIP archive: sequence of [name, content]
    dirs,             \* filesystem: set of existing directories
    files,            \* filesystem: regular file path -> content
    pc,               \* extract_zip: position of the orchestrating thread
    i,                \* extract_zip: loop index of the current loop
    files_to_create,  \* extract_zip: Vec<(String, Vec<u8>, bool)>
    dirs_to_create,   \* extract_zip: Vec<String>
    error_mutex,      \* extract_zip: Mutex<Option<String>>
    wstate,           \* extract_zip: per record, position of its closure
    werr,             \* extract_zip: per record, the io::Error held by `e`
    result,           \* extract_zip: the returned Result<(), String>
    hist,             \* history of extract_zip's filesystem calls
    init_fs,          \* the filesystem when the operation was called
    source,           \* copy_directory: source argument
    target,           \* copy_directory: target argument
    cpc,              \* copy_directory: position of the calling thread
    frames,           \* copy_dir_recursive: activations, keyed by src
    cresult,          \* copy_directory: the returned Result<(), String>
    chist,            \* history of the copier's filesystem calls
    apc,              \* analyze_zip_content: position
    ai,               \* analyze_zip_content: loop index
    has_package_files,
    has_ts_script,
    file_list,
    suspicious_files,
    aresult           \* analyze_zip_content: the returned Result

fsVars      == <<dirs, files>>
extractVars == <<pc, i, files_to_create, dirs_to_create, error_mutex, wstate,
                 werr, result, hist>>
copyVars    == <<source, target, cpc, frames, cresult, chist>>
analyzeVars == <<apc, ai, has_package_files, has_ts_script, file_list,
                 suspicious_files, aresult>>
vars        == <<archive, fsVars, init_fs, extractVars, copyVars, analyzeVars>>

(***************************************************************************)
(* Bounds of the model.                                                    *)
(***************************************************************************)
MaxEntries        == 2   \* longest archive given to extract_zip
MaxAnalyzeEntries == 3   \* longest archive given to analyze_zip_content
MaxPathLen        == 5   \* longest path the filesystem accepts (PATH_MAX)

(***************************************************************************)
(* Characters and names.                                                   *)
(***************************************************************************)
Slash     == "/"
Backslash == "\\"
DotDot    == <<".", ".">>
Dot       == <<".">>

\* char::to_lowercase on the characters the names use
ToLowerChar(c) ==
    CASE c = "A" -> "a" [] c = "C" -> "c" [] c = "D" -> "d" [] c = "E" -> "e"
      [] c = "G" -> "g" [] c = "K" -> "k" [] c = "M" -> "m" [] c = "P" -> "p"
      [] c = "R" -> "r" [] OTHER -> c

\* str::to_lowercase
to_lowercase(s) == [k \in 1..Len(s) |-> ToLowerChar(s[k])]

\* str::ends_with
ends_with(s, suffix) ==
    /\ Len(suffix) <= Len(s)
    /\ SubSeq(s, Len(s) - Len(suffix) + 1, Len(s)) = suffix

\* str::contains
contains(s, pat) ==
    \E k \in 1..(Len(s) - Len(pat) + 1) : SubSeq(s, k, k + Len(pat) - 1) = pat

(***************************************************************************)
(* std::path on the entry names.                                           *)
(***************************************************************************)
RECURSIVE SplitFrom(_, _, _)
SplitFrom(s, cur, acc) ==
    IF s = <<>>
    THEN IF cur = <<>> THEN acc ELSE Append(acc, cur)
    ELSE IF Head(s) = Slash
         THEN SplitFrom(Tail(s), <<>>, IF cur = <<>> THEN acc ELSE Append(acc, cur))
         ELSE SplitFrom(Tail(s), Append(cur, Head(s)), acc)

\* Path::components: split on the separator, drop empty and "." components
Components(name) ==
    SelectSeq(SplitFrom(name, <<>>, <<>>), LAMBDA c : c # Dot)

\* Path::has_root
HasRoot(name) == name # <<>> /\ name[1] = Slash

\* Path::join: an absolute argument replaces the base
Join(base, name) ==
    IF HasRoot(name) THEN Components(name) ELSE base \o Components(name)

\* Path::parent; HasParent is its Some/None
HasParent(p) == p # <<>>
Parent(p)    == SubSeq(p, 1, Len(p) - 1)

\* Path::starts_with
IsPrefix(p, q) == Len(p) <= Len(q) /\ SubSeq(q, 1, Len(p)) = p

(***************************************************************************)
(* The filesystem calls of std::fs.                                        *)
(***************************************************************************)
\* Path resolution by the operating system: every component but the last
\* must be an existing directory, ".." steps to the parent.
RECURSIVE Walk(_, _, _)
Walk(ds, comps, cur) ==
    IF comps = <<>> THEN [ok |-> TRUE, path |-> cur]
    ELSE IF cur \notin ds THEN [ok |-> FALSE, path |-> cur]
    ELSE IF Head(comps) = DotDot
         THEN Walk(ds, Tail(comps), IF cur = <<>> THEN cur ELSE Parent(cur))
         ELSE Walk(ds, Tail(comps), Append(cur, Head(comps)))

Resolve(ds, p) == Walk(ds, p, <<>>)

EndsInDotDot(p) == p # <<>> /\ p[Len(p)] = DotDot

\* Path::is_dir
IsDir(ds, p) == LET r == Resolve(ds, p) IN r.ok /\ r.path \in ds

\* Path::is_file
IsFile(ds, fl, p) ==
    LET r == Resolve(ds, p) IN r.ok /\ r.path \in DOMAIN fl

\* Path::exists
Exists(ds, fl, p) == IsDir(ds, p) \/ IsFile(ds, fl, p)

\* mkdir(2): deny is the set of paths where the call is refused (EACCES)
MkDir(ds, fl, p, deny) ==
    LET r == Resolve(ds, p) IN
    IF ~r.ok
    THEN [err |-> IF r.path \in DOMAIN fl THEN "ENOTDIR" ELSE "ENOENT", dirs |-> ds]
    ELSE IF p = <<>> \/ EndsInDotDot(p) \/ r.path \in ds \/ r.path \in DOMAIN fl
    THEN [err |-> "EEXIST", dirs |-> ds]
    ELSE IF Len(r.path) > MaxPathLen
    THEN [err |-> "ENAMETOOLONG", dirs |-> ds]
    ELSE IF r.path \in deny
    THEN [err |-> "EACCES", dirs |-> ds]
    ELSE [err |-> "none", dirs |-> ds \cup {r.path}]

\* std::fs::create_dir_all: mkdir; on NotFound create the parent first and
\* retry; any other error is forgiven when the path is a directory.
RECURSIVE CreateDirAll(_, _, _, _)
CreateDirAll(ds, fl, p, deny) ==
    LET m == MkDir(ds, fl, p, deny) IN
    IF m.err = "none" THEN m
    ELSE IF m.err # "ENOENT"
    THEN [err |-> IF IsDir(ds, p) THEN "none" ELSE m.err, dirs |-> ds]
    ELSE IF ~HasParent(p) THEN m
    ELSE LET r == CreateDirAll(ds, fl, Parent(p), deny) IN
         IF r.err # "none" THEN r
         ELSE LET m2 == MkDir(r.dirs, fl, p, deny) IN
              IF m2.err = "none" THEN m2
              ELSE [err |-> IF IsDir(r.dirs, p) THEN "none" ELSE m2.err,
                    dirs |-> r.dirs]

\* the refusals create_dir_all(p) can meet: none, or one at a directory it
\* would create
DenyChoices(ds, fl, p) ==
    {{}} \cup {{q} : q \in CreateDirAll(ds, fl, p, {}).dirs \ ds}

\* std::fs::write: create or truncate the file and write the content.
\* fault is an I/O failure of this call.
FsWrite(ds, fl, p, content, fault) ==
    LET r == Resolve(ds, p) IN
    IF ~r.ok
    THEN [err |-> IF r.path \in DOMAIN fl THEN "ENOTDIR" ELSE "ENOENT", files |-> fl]
    ELSE IF p = <<>> \/ EndsInDotDot(p) \/ r.path \in ds
    THEN [err |-> "EISDIR", files |-> fl]
    ELSE IF fault
    THEN [err |-> "EIO", files |-> fl]
    ELSE [err |-> "none",
          files |-> [q \in DOMAIN fl \cup {r.path} |->
                        IF q = r.path THEN content ELSE fl[q]]]


(***************************************************************************)
(* Inputs of extract_zip.                                                  *)
(***************************************************************************)
DestDir == << <<"D">> >>                      \* dest_dir = "/D"

ExtractNames ==
    { <<"a", "/">>,                \* a/    explicit directory entry
      <<"a", "/", "b">>,           \* a/b   file below a directory
      <<"c">>,                     \* c     file at the top
      <<"a">>,                     \* a     file named like the directory
      <<"c", "\\">>,               \* c\    name ending in a backslash
      <<".", ".", "/", "e">>,      \* ../e  name with a parent component
      <<"/", "e">> }               \* /e    absolute name

\* the bytes of the k-th entry of an archive, and bytes no entry holds
Bytes(k) == <<k>>
OldBytes == <<0>>

NoFiles == [q \in {} |-> OldBytes]

\* the destinations extract_zip is called on
InitialFs ==
    { [dirs |-> {<<>>}, files |-> NoFiles],
      [dirs |-> {<<>>, DestDir}, files |-> NoFiles],
      [dirs |-> {<<>>, DestDir}, files |-> [q \in {DestDir \o << <<"c">> >>} |-> OldBytes]],
      [dirs |-> {<<>>, DestDir}, files |-> [q \in {DestDir \o << <<"z">> >>} |-> OldBytes]],
      [dirs |-> {<<>>, DestDir}, files |-> [q \in {DestDir \o << <<"a">> >>} |-> OldBytes]],
      [dirs |-> {<<>>, DestDir, DestDir \o << <<"a">> >>}, files |-> NoFiles],
      [dirs |-> {<<>>}, files |-> [q \in {DestDir} |-> OldBytes]] }

Archives(names, maxLen) ==
    UNION { { [k \in 1..n |-> [name |-> ns[k], content |-> Bytes(k)]] :
                ns \in [1..n -> names] } : n \in 0..maxLen }

(***************************************************************************)
(* extract_zip                                                             *)
(***************************************************************************)
None      == [tag |-> "None", name |-> <<>>, cause |-> ""]
Some(n, c) == [tag |-> "Some", name |-> n, cause |-> c]

NoResult     == [tag |-> "none", msg |-> "", name |-> <<>>, cause |-> ""]
Ok           == [tag |-> "Ok", msg |-> "", name |-> <<>>, cause |-> ""]
Err(m, n, c) == [tag |-> "Err", msg |-> m, name |-> n, cause |-> c]

NoHist == [mkdirs |-> 0, mkdirErr |-> "none", attempts |-> <<>>, oks |-> <<>>,
           skipped |-> {}, failed |-> {}, reads |-> <<>>]

\* AfterDirs without the loop of lines 48-53
AfterDirs_NoParents(ftc) == "par"

\* the position after the first pass / after the directory loop
AfterDirs(ftc)      == IF ftc # <<>> THEN "mkparents" ELSE "par"
AfterRead(ftc, dtc) == IF dtc # <<>> THEN "mkdirs" ELSE AfterDirs(ftc)

\* lines 20-21: File::open and ZipArchive::new
OpenArchive ==
    /\ pc = "open"
    /\ \E ok \in BOOLEAN :
         IF ok
         THEN /\ pc' = IF archive # <<>> THEN "read" ELSE AfterRead(<<>>, <<>>)
              /\ result' = result
         ELSE /\ pc' = "done"
              /\ result' = Err("", <<>>, "EOPEN")
    /\ UNCHANGED <<archive, fsVars, init_fs, i, files_to_create, dirs_to_create,
                   error_mutex, wstate, werr, hist, copyVars, analyzeVars>>

\* ReadEntry with the loop ending one entry before the end of the archive
ReadEntry_StopsEarly ==
    /\ pc = "read"
    /\ i <= Len(archive)
    /\ LET name == archive[i].name IN
       \E ok \in BOOLEAN :
         IF ~ok
         THEN /\ pc' = "done"
              /\ result' = Err("", <<>>, "EREAD")
              /\ UNCHANGED <<i, files_to_create, dirs_to_create, wstate, werr, hist>>
         ELSE LET isdir == ends_with(name, <<Slash>>)
                  dtc == IF isdir THEN Append(dirs_to_create, name) ELSE dirs_to_create
                  ftc == IF isdir THEN files_to_create
                         ELSE Append(files_to_create,
                                     [name |-> name, content |-> archive[i].content])
              IN /\ dirs_to_create' = dtc
                 /\ files_to_create' = ftc
                 /\ wstate' = [k \in 1..Len(ftc) |-> "todo"]
                 /\ werr' = [k \in 1..Len(ftc) |-> ""]
                 /\ hist' = [hist EXCEPT !.attempts = [k \in 1..Len(ftc) |-> 0],
                                         !.oks = [k \in 1..Len(ftc) |-> 0],
                                         !.reads = Append(@, i)]
                 /\ IF i < Len(archive) - 1
                    THEN i' = i + 1 /\ pc' = pc
                    ELSE i' = 1 /\ pc' = AfterRead(ftc, dtc)
                 /\ result' = result
    /\ UNCHANGED <<archive, fsVars, init_fs, error_mutex, copyVars, analyzeVars>>

\* lines 27-39: one iteration of the first pass
ReadEntry ==
    /\ pc = "read"
    /\ i <= Len(archive)
    /\ LET name == archive[i].name IN
       \E ok \in BOOLEAN :
         IF ~ok
         THEN /\ pc' = "done"
              /\ result' = Err("", <<>>, "EREAD")
              /\ UNCHANGED <<i, files_to_create, dirs_to_create, wstate, werr, hist>>
         ELSE LET isdir == ends_with(name, <<Slash>>)
                  dtc == IF isdir THEN Append(dirs_to_create, name) ELSE dirs_to_create
                  ftc == IF isdir THEN files_to_create
                         ELSE Append(files_to_create,
                                     [name |-> name, content |-> archive[i].content])
              IN /\ dirs_to_create' = dtc
                 /\ files_to_create' = ftc
                 /\ wstate' = [k \in 1..Len(ftc) |-> "todo"]
                 /\ werr' = [k \in 1..Len(ftc) |-> ""]
                 /\ hist' = [hist EXCEPT !.attempts = [k \in 1..Len(ftc) |-> 0],
                                         !.oks = [k \in 1..Len(ftc) |-> 0],
                                         !.reads = Append(@, i)]
                 /\ IF i < Len(archive)
                    THEN i' = i + 1 /\ pc' = pc
                    ELSE i' = 1 /\ pc' = AfterRead(ftc, dtc)
                 /\ result' = result
    /\ UNCHANGED <<archive, fsVars, init_fs, error_mutex, copyVars, analyzeVars>>

\* CreateDir dropping the error of create_dir_all instead of returning it
CreateDir_IgnoreError ==
    /\ pc = "mkdirs"
    /\ i <= Len(dirs_to_create)
    /\ LET outpath == Join(DestDir, dirs_to_create[i]) IN
       \E deny \in DenyChoices(dirs, files, outpath) :
         LET r == CreateDirAll(dirs, files, outpath, deny) IN
         /\ dirs' = r.dirs
         /\ result' = result
         /\ hist' = [hist EXCEPT !.mkdirs = @ + 1,
                                 !.mkdirErr = IF r.err # "none" THEN r.err ELSE @]
         /\ IF i < Len(dirs_to_create)
            THEN i' = i + 1 /\ pc' = pc
            ELSE i' = 1 /\ pc' = AfterDirs(files_to_create)
    /\ UNCHANGED <<archive, files, init_fs, files_to_create, dirs_to_create,
                   error_mutex, wstate, werr, copyVars, analyzeVars>>

\* lines 42-45: one iteration of the loop over dirs_to_create
CreateDir ==
    /\ pc = "mkdirs"
    /\ i <= Len(dirs_to_create)
    /\ LET outpath == Join(DestDir, dirs_to_create[i]) IN
       \E deny \in DenyChoices(dirs, files, outpath) :
         LET r == CreateDirAll(dirs, files, outpath, deny) IN
         /\ dirs' = r.dirs
         /\ IF r.err # "none"
            THEN /\ pc' = "done"
                 /\ result' = Err("", <<>>, r.err)
                 /\ i' = i
                 /\ hist' = [hist EXCEPT !.mkdirs = @ + 1, !.mkdirErr = r.err]
            ELSE /\ result' = result
                 /\ hist' = [hist EXCEPT !.mkdirs = @ + 1]
                 /\ IF i < Len(dirs_to_create)
                    THEN i' = i + 1 /\ pc' = pc
                    ELSE i' = 1 /\ pc' = AfterDirs(files_to_create)
    /\ UNCHANGED <<archive, files, init_fs, files_to_create, dirs_to_create,
                   error_mutex, wstate, werr, copyVars, analyzeVars>>

\* CreateParentDir calling create_dir (one mkdir) for create_dir_all
CreateParentDir_CreateDir ==
    /\ pc = "mkparents"
    /\ i <= Len(files_to_create)
    /\ LET outpath == Join(DestDir, files_to_create[i].name)
           p == Parent(outpath)
       IN
       \E deny \in (IF HasParent(outpath) THEN DenyChoices(dirs, files, p) ELSE {{}}) :
         LET r == IF HasParent(outpath) THEN MkDir(dirs, files, p, deny)
                  ELSE [err |-> "none", dirs |-> dirs]
             n == IF HasParent(outpath) THEN 1 ELSE 0
         IN
         /\ dirs' = r.dirs
         /\ IF r.err # "none"
            THEN /\ pc' = "done"
                 /\ result' = Err("", <<>>, r.err)
                 /\ i' = i
                 /\ hist' = [hist EXCEPT !.mkdirs = @ + n, !.mkdirErr = r.err]
            ELSE /\ result' = result
                 /\ hist' = [hist EXCEPT !.mkdirs = @ + n]
                 /\ IF i < Len(files_to_create)
                    THEN i' = i + 1 /\ pc' = pc
                    ELSE i' = 1 /\ pc' = "par"
    /\ UNCHANGED <<archive, files, init_fs, files_to_create, dirs_to_create,
                   error_mutex, wstate, werr, copyVars, analyzeVars>>

\* lines 48-53: one iteration of the loop creating the parent of each file
CreateParentDir ==
    /\ pc = "mkparents"
    /\ i <= Len(files_to_create)
    /\ LET outpath == Join(DestDir, files_to_create[i].name)
           p == Parent(outpath)
       IN
       \E deny \in (IF HasParent(outpath) THEN DenyChoices(dirs, files, p) ELSE {{}}) :
         LET r == IF HasParent(outpath) THEN CreateDirAll(dirs, files, p, deny)
                  ELSE [err |-> "none", dirs |-> dirs]
             n == IF HasParent(outpath) THEN 1 ELSE 0
         IN
         /\ dirs' = r.dirs
         /\ IF r.err # "none"
            THEN /\ pc' = "done"
                 /\ result' = Err("", <<>>, r.err)
                 /\ i' = i
                 /\ hist' = [hist EXCEPT !.mkdirs = @ + n, !.mkdirErr = r.err]
            ELSE /\ result' = result
                 /\ hist' = [hist EXCEPT !.mkdirs = @ + n]
                 /\ IF i < Len(files_to_create)
                    THEN i' = i + 1 /\ pc' = pc
                    ELSE i' = 1 /\ pc' = "par"
    /\ UNCHANGED <<archive, files, init_fs, files_to_create, dirs_to_create,
                   error_mutex, wstate, werr, copyVars, analyzeVars>>

\* WorkerCheck with the test of the slot inverted (is_none for is_some)
WorkerCheck_Inverted(k) ==
    /\ pc = "par"
    /\ wstate[k] = "todo"
    /\ IF error_mutex.tag # "Some"
       THEN /\ wstate' = [wstate EXCEPT ![k] = "done"]
            /\ hist' = [hist EXCEPT !.skipped = @ \cup {k}]
       ELSE /\ wstate' = [wstate EXCEPT ![k] = "write"]
            /\ hist' = hist
    /\ UNCHANGED <<archive, fsVars, init_fs, pc, i, files_to_create, dirs_to_create,
                   error_mutex, werr, result, copyVars, analyzeVars>>

\* lines 61-63: the closure for record k tests the failure slot
WorkerCheck(k) ==
    /\ pc = "par"
    /\ wstate[k] = "todo"
    /\ IF error_mutex.tag = "Some"
       THEN /\ wstate' = [wstate EXCEPT ![k] = "done"]
            /\ hist' = [hist EXCEPT !.skipped = @ \cup {k}]
       ELSE /\ wstate' = [wstate EXCEPT ![k] = "write"]
            /\ hist' = hist
    /\ UNCHANGED <<archive, fsVars, init_fs, pc, i, files_to_create, dirs_to_create,
                   error_mutex, werr, result, copyVars, analyzeVars>>

\* lines 65-66: the closure for record k writes its file
WorkerWrite(k) ==
    /\ pc = "par"
    /\ wstate[k] = "write"
    /\ LET outpath == Join(DestDir, files_to_create[k].name) IN
       \E fault \in BOOLEAN :
         LET w == FsWrite(dirs, files, outpath, files_to_create[k].content, fault) IN
         /\ files' = w.files
         /\ werr' = [werr EXCEPT ![k] = w.err]
         /\ IF w.err = "none"
            THEN /\ wstate' = [wstate EXCEPT ![k] = "done"]
                 /\ hist' = [hist EXCEPT !.attempts[k] = @ + 1, !.oks[k] = @ + 1]
            ELSE /\ wstate' = [wstate EXCEPT ![k] = "record"]
                 /\ hist' = [hist EXCEPT !.attempts[k] = @ + 1,
                                         !.failed = @ \cup {k}]
    /\ UNCHANGED <<archive, dirs, init_fs, pc, i, files_to_create, dirs_to_create,
                   error_mutex, result, copyVars, analyzeVars>>

\* WorkerRecord waiting until the slot is empty before it takes the lock
WorkerRecord_Blocks(k) ==
    /\ pc = "par"
    /\ wstate[k] = "record"
    /\ error_mutex.tag # "Some"
    /\ error_mutex' = Some(files_to_create[k].name, werr[k])
    /\ wstate' = [wstate EXCEPT ![k] = "done"]
    /\ UNCHANGED <<archive, fsVars, init_fs, pc, i, files_to_create, dirs_to_create,
                   werr, result, hist, copyVars, analyzeVars>>

\* lines 67-68: the closure for record k stores its error in the slot
WorkerRecord(k) ==
    /\ pc = "par"
    /\ wstate[k] = "record"
    /\ error_mutex' = Some(files_to_create[k].name, werr[k])
    /\ wstate' = [wstate EXCEPT ![k] = "done"]
    /\ UNCHANGED <<archive, fsVars, init_fs, pc, i, files_to_create, dirs_to_create,
                   werr, result, hist, copyVars, analyzeVars>>

\* for_each returning as soon as one closure has stored an error
ForEachJoined_FailFast ==
    \/ error_mutex.tag = "Some"
    \/ \A k \in DOMAIN wstate : wstate[k] = "done"

\* lines 58-70: par_iter().for_each returns when every closure has run
ForEachJoined == \A k \in DOMAIN wstate : wstate[k] = "done"

\* ExtractReturn reporting the name of the first record instead of the slot's
ExtractReturn_FirstRecord ==
    /\ pc = "par"
    /\ ForEachJoined
    /\ pc' = "done"
    /\ result' = IF error_mutex.tag = "Some"
                 THEN Err("Failed to write", files_to_create[1].name, error_mutex.cause)
                 ELSE Ok
    /\ UNCHANGED <<archive, fsVars, init_fs, i, files_to_create, dirs_to_create,
                   error_mutex, wstate, werr, hist, copyVars, analyzeVars>>

\* lines 70-77: all closures have run; the slot decides the result
ExtractReturn ==
    /\ pc = "par"
    /\ ForEachJoined
    /\ pc' = "done"
    /\ result' = IF error_mutex.tag = "Some"
                 THEN Err("Failed to write", error_mutex.name, error_mutex.cause)
                 ELSE Ok
    /\ UNCHANGED <<archive, fsVars, init_fs, i, files_to_create, dirs_to_create,
                   error_mutex, wstate, werr, hist, copyVars, analyzeVars>>

(***************************************************************************)
(* Properties of extract_zip.                                              *)
(***************************************************************************)
OutPath(k)   == Join(DestDir, files_to_create[k].name)
Started(k)   == wstate[k] # "todo" \/ hist.attempts[k] > 0

\* the number of create_dir_all calls a complete directory phase makes
DirCallsNeeded ==
    Len(dirs_to_create)
      + Cardinality({k \in DOMAIN files_to_create : HasParent(OutPath(k))})

DirPhaseDone ==
    /\ pc \in {"par", "done"}
    /\ hist.mkdirErr = "none"
    /\ hist.mkdirs = DirCallsNeeded
    /\ \A d \in DOMAIN dirs_to_create : IsDir(dirs, Join(DestDir, dirs_to_create[d]))

\* C1: whenever a closure has passed its test of the slot and is about to
\* write, or has written, the directory phase is complete without error
\* (every create_dir_all call of the run was made and succeeded) and the
\* parent directory of the file's path exists.
C1_DirsBeforeWrites ==
    \A k \in DOMAIN wstate :
        Started(k) =>
            /\ DirPhaseDone
            /\ HasParent(OutPath(k)) => IsDir(dirs, Parent(OutPath(k)))

\* a file was written into a directory that the run itself had to create
C1_Witness ==
    \E k \in DOMAIN wstate :
        /\ hist.oks[k] = 1
        /\ files_to_create[k].name = <<"a", "/", "b">>
        /\ init_fs.dirs = {<<>>}
        /\ dirs_to_create # <<>>

\* C3 (as claimed): once the failure slot holds an error, no step changes it.
C3_SlotWriteOnce ==
    [][error_mutex.tag = "Some" => error_mutex' = error_mutex]_vars

\* the operation returned from the parallel phase (not from an earlier `?`)
ReturnedFromPar ==
    /\ pc = "done"
    /\ hist.mkdirErr = "none"
    /\ result.cause \notin {"EOPEN", "EREAD"}

\* C4: when extract_zip returns from the parallel phase, it returns Err iff
\* some write failed, and the one error it returns is the error of a record
\* whose write failed in this run (its name and its cause).
C4_FailsIffAWriteFailed ==
    ReturnedFromPar =>
        /\ (result.tag = "Err") <=> (hist.failed # {})
        /\ result.tag = "Err" =>
              \E k \in hist.failed :
                 result = Err("Failed to write", files_to_create[k].name, werr[k])

\* two writes of different records failed and the operation returned
C4_Witness ==
    /\ ReturnedFromPar
    /\ result.tag = "Err"
    /\ \E j, k \in hist.failed :
          files_to_create[j].name # files_to_create[k].name

\* the archive entries extract_zip takes as files
FileEntries == {k \in DOMAIN archive : ~ends_with(archive[k].name, <<Slash>>)}

\* C5: when extract_zip returns Ok, there is one pending record per file
\* entry of the archive, and every record was written exactly once: one
\* attempt, which succeeded, and no record was skipped.
C5_OkMeansAllWrittenOnce ==
    (pc = "done" /\ result.tag = "Ok") =>
        /\ Len(files_to_create) = Cardinality(FileEntries)
        /\ \A k \in DOMAIN files_to_create :
              /\ hist.attempts[k] = 1
              /\ hist.oks[k] = 1
              /\ k \notin hist.skipped

\* Ok was returned for an archive with two file entries
C5_Witness ==
    /\ pc = "done" /\ result.tag = "Ok"
    /\ Len(files_to_create) = 2
    /\ \A k \in DOMAIN files_to_create : hist.oks[k] = 1

\* the place of a file entry in the filesystem
TargetOf(k) == Resolve(dirs, Join(DestDir, archive[k].name)).path

\* the directories of the archive: explicit, or the parent of a file entry
NeededDirs ==
    {Join(DestDir, archive[k].name) : k \in DOMAIN archive \ FileEntries}
      \cup {Parent(Join(DestDir, archive[k].name)) : k \in FileEntries}

FilesUnder(fl, d) == {q \in DOMAIN fl : IsPrefix(d, q)}
DirsUnder(ds, d)  == {q \in ds : IsPrefix(d, q)}

\* C6 (as claimed): for a destination that holds no file at the call, after
\* Ok the destination holds exactly N regular files, one per file entry at
\* destination/name with the entry's bytes, and at least M directories.
C6_ExactlyNFiles ==
    (pc = "done" /\ result.tag = "Ok" /\ FilesUnder(init_fs.files, DestDir) = {}) =>
        /\ Cardinality(FilesUnder(files, DestDir)) = Cardinality(FileEntries)
        /\ \A k \in FileEntries :
              /\ TargetOf(k) \in DOMAIN files
              /\ files[TargetOf(k)] = archive[k].content
        /\ Cardinality(DirsUnder(dirs, DestDir)) >= Cardinality(NeededDirs)

\* What Ok does establish: every file entry has a regular file at the place
\* destination/name resolves to, holding the entry's bytes when no other
\* file entry has the same place; every directory of the archive exists;
\* and the regular files are those places together with the files that
\* were there before the call, which keep their content unless an entry
\* replaced them.
ExtractOkPostcondition ==
    (pc = "done" /\ result.tag = "Ok") =>
        /\ \A k \in FileEntries :
              /\ TargetOf(k) \in DOMAIN files
              /\ (\A j \in FileEntries : j # k => TargetOf(j) # TargetOf(k))
                    => files[TargetOf(k)] = archive[k].content
        /\ \A d \in NeededDirs : IsDir(dirs, d)
        /\ DOMAIN files = DOMAIN init_fs.files \cup {TargetOf(k) : k \in FileEntries}
        /\ \A q \in DOMAIN init_fs.files :
              (\A k \in FileEntries : TargetOf(k) # q) => files[q] = init_fs.files[q]
        /\ init_fs.dirs \subseteq dirs

\* C8: once a create_dir_all of the directory phase has failed, extract_zip
\* has returned that error, no closure has started and no file was written;
\* and from then on nothing is created or attempted.
C8_DirFailureAborts ==
    /\ [](hist.mkdirErr # "none" =>
            /\ pc = "done"
            /\ result = Err("", <<>>, hist.mkdirErr)
            /\ \A k \in DOMAIN wstate : ~Started(k)
            /\ files = init_fs.files)
    /\ [][hist.mkdirErr # "none" => UNCHANGED <<dirs, files, hist>>]_vars

\* the first of two directory creations failed; the second was never tried
C8_Witness ==
    /\ hist.mkdirErr # "none"
    /\ hist.mkdirs = 1
    /\ DirCallsNeeded = 2
    /\ pc = "done"

(***************************************************************************)
(* copy_directory and copy_dir_recursive                                   *)
(***************************************************************************)
\* std::fs::remove_dir_all: the directory and everything below it; a path
\* that is not a directory is refused.  fault is an I/O failure of the call.
RemoveDirAll(ds, fl, p, fault) ==
    LET r == Resolve(ds, p) IN
    IF ~r.ok \/ r.path \notin ds
    THEN [err |-> "ENOTDIR", dirs |-> ds, files |-> fl]
    ELSE IF fault \/ r.path = <<>>
    THEN [err |-> "EACCES", dirs |-> ds, files |-> fl]
    ELSE [err |-> "none",
          dirs |-> {q \in ds : ~IsPrefix(r.path, q)},
          files |-> [q \in {x \in DOMAIN fl : ~IsPrefix(r.path, x)} |-> fl[q]]]

\* std::fs::read_dir collected: the names of the immediate children
Children(ds, fl, p) ==
    {q[Len(q)] : q \in {x \in ds \cup DOMAIN fl : Len(x) = Len(p) + 1 /\ IsPrefix(p, x)}}

\* the orders in which read_dir can yield a set of names
Orders(S) ==
    {o \in [1..Cardinality(S) -> S] : \A a \in S : \E k \in DOMAIN o : o[k] = a}

\* std::fs::copy: the content of a regular file, written over `to`
FsCopy(ds, fl, from, to, fault) ==
    LET r == Resolve(ds, from) IN
    IF ~r.ok \/ r.path \notin DOMAIN fl
    THEN [err |-> IF r.ok /\ r.path \in ds THEN "EINVAL" ELSE "ENOENT", files |-> fl]
    ELSE FsWrite(ds, fl, to, fl[r.path], fault)

NoFrames == [s \in {} |-> 0]

\* an activation of copy_dir_recursive(src, dst); src is its key in frames
NewFrame(dst) ==
    [dst |-> dst, phase |-> "list", entries |-> <<>>, idx |-> 1,
     units |-> <<>>, uerr |-> <<>>, ret |-> "none",
     \* history: the error of the unit that failed first in time, the number
     \* of read_dir calls, the number of times each unit was started, and the
     \* number of units started after a unit of the level had failed
     first |-> "none", lists |-> 0, starts |-> <<>>, after |-> 0]

WithFrame(fr, src, f) ==
    [k \in DOMAIN fr \cup {src} |-> IF k = src THEN f ELSE fr[k]]

\* CopyRemoveTarget keeping an existing target (merge instead of replace)
CopyRemoveTarget_Keep ==
    /\ cpc = "start"
    /\ cpc' = "mkroot"
    /\ UNCHANGED <<archive, fsVars, init_fs, extractVars, analyzeVars, source,
                   target, frames, cresult, chist>>

\* lines 203-205: remove the target if it exists
CopyRemoveTarget ==
    /\ cpc = "start"
    /\ IF Exists(dirs, files, target)
       THEN \E fault \in BOOLEAN :
              LET r == RemoveDirAll(dirs, files, target, fault) IN
              /\ dirs' = r.dirs
              /\ files' = r.files
              /\ IF r.err # "none"
                 THEN cpc' = "done" /\ cresult' = Err("", <<>>, r.err)
                 ELSE cpc' = "mkroot" /\ cresult' = cresult
       ELSE /\ cpc' = "mkroot"
            /\ UNCHANGED <<dirs, files, cresult>>
    /\ UNCHANGED <<archive, init_fs, extractVars, analyzeVars, source, target,
                   frames, chist>>

\* lines 208-211: create the target and call copy_dir_recursive
CopyCreateTarget ==
    /\ cpc = "mkroot"
    /\ \E deny \in DenyChoices(dirs, files, target) :
         LET r == CreateDirAll(dirs, files, target, deny) IN
         /\ dirs' = r.dirs
         /\ IF r.err # "none"
            THEN /\ cpc' = "done"
                 /\ cresult' = Err("", <<>>, r.err)
                 /\ frames' = frames
            ELSE /\ cpc' = "copy"
                 /\ cresult' = cresult
                 /\ frames' = WithFrame(frames, source, NewFrame(target))
    /\ UNCHANGED <<archive, files, init_fs, extractVars, analyzeVars, source,
                   target, chist>>

\* line 413: the snapshot of the children of src
FrameList(s) ==
    /\ frames[s].phase = "list"
    /\ \E fault \in BOOLEAN :
         IF fault \/ ~IsDir(dirs, s)
         THEN frames' = [frames EXCEPT ![s].phase = "ret",
                                       ![s].ret = IF fault THEN "EIO" ELSE "ENOENT",
                                       ![s].lists = @ + 1]
         ELSE \E o \in Orders(Children(dirs, files, s)) :
                frames' = [frames EXCEPT
                             ![s].entries = o,
                             ![s].units = [k \in DOMAIN o |-> "todo"],
                             ![s].uerr = [k \in DOMAIN o |-> "none"],
                             ![s].starts = [k \in DOMAIN o |-> 0],
                             ![s].lists = @ + 1,
                             ![s].phase = IF o = <<>> THEN "par" ELSE "mkdir"]
    /\ UNCHANGED <<archive, fsVars, init_fs, extractVars, analyzeVars, source,
                   target, cpc, cresult, chist>>

\* FrameMkdir leaving the target directories to the parallel units
FrameMkdir_Skip(s) ==
    /\ frames[s].phase = "mkdir"
    /\ frames' = IF frames[s].idx < Len(frames[s].entries)
                 THEN [frames EXCEPT ![s].idx = @ + 1]
                 ELSE [frames EXCEPT ![s].phase = "par"]
    /\ UNCHANGED <<archive, fsVars, init_fs, extractVars, analyzeVars, source,
                   target, cpc, cresult, chist>>

\* lines 416-424: one iteration of the sequential loop of a level
FrameMkdir(s) ==
    /\ frames[s].phase = "mkdir"
    /\ LET f == frames[s]
           path == Append(s, f.entries[f.idx])
           target_path == Append(f.dst, f.entries[f.idx])
           advance == IF f.idx < Len(f.entries)
                      THEN [frames EXCEPT ![s].idx = @ + 1]
                      ELSE [frames EXCEPT ![s].phase = "par"]
       IN
       IF IsDir(dirs, path)
       THEN \E deny \in DenyChoices(dirs, files, target_path) :
              LET r == CreateDirAll(dirs, files, target_path, deny) IN
              /\ dirs' = r.dirs
              /\ frames' = IF r.err # "none"
                           THEN [frames EXCEPT ![s].phase = "ret", ![s].ret = r.err]
                           ELSE advance
       ELSE /\ dirs' = dirs
            /\ frames' = advance
    /\ UNCHANGED <<archive, files, init_fs, extractVars, analyzeVars, source,
                   target, cpc, cresult, chist>>

\* lines 432-447: the parallel unit of entry j starts: a directory is
\* entered by a recursive call, a file is copied
UnitStart(s, j) ==
    /\ frames[s].phase = "par"
    /\ frames[s].units[j] = "todo"
    /\ LET f == frames[s]
           path == Append(s, f.entries[j])
           target_path == Append(f.dst, f.entries[j])
       IN
       IF IsDir(dirs, path)
       THEN /\ frames' = WithFrame([frames EXCEPT
                                      ![s].units[j] = "run",
                                      ![s].starts[j] = @ + 1,
                                      ![s].after = IF f.first # "none" THEN @ + 1 ELSE @],
                                   path, NewFrame(target_path))
            /\ chist' = [chist EXCEPT !.entered = @ \cup {<<path, target_path>>}]
            /\ files' = files
       ELSE \E fault \in BOOLEAN :
              LET c == FsCopy(dirs, files, path, target_path, fault) IN
              /\ files' = c.files
              /\ chist' = [chist EXCEPT !.copies = @ + 1,
                                        !.copied = @ \cup {<<path, target_path>>}]
              /\ frames' = [frames EXCEPT
                              ![s].units[j] = IF c.err = "none" THEN "ok" ELSE "err",
                              ![s].uerr[j] = c.err,
                              ![s].starts[j] = @ + 1,
                              ![s].after = IF f.first # "none" THEN @ + 1 ELSE @,
                              ![s].first = IF @ = "none" THEN c.err ELSE @]
    /\ UNCHANGED <<archive, dirs, init_fs, extractVars, analyzeVars, source,
                   target, cpc, cresult>>

\* lines 439-441: the recursive call of unit j has returned
UnitJoin(s, j) ==
    /\ frames[s].phase = "par"
    /\ frames[s].units[j] = "run"
    /\ LET child == Append(s, frames[s].entries[j]) IN
       /\ frames[child].ret # "none"
       /\ frames' = [frames EXCEPT
                       ![s].units[j] = IF frames[child].ret = "Ok" THEN "ok" ELSE "err",
                       ![s].uerr[j] = IF frames[child].ret = "Ok" THEN "none"
                                      ELSE frames[child].ret,
                       ![s].first = IF @ = "none" /\ frames[child].ret # "Ok"
                                    THEN frames[child].ret ELSE @]
    /\ UNCHANGED <<archive, fsVars, init_fs, extractVars, analyzeVars, source,
                   target, cpc, cresult, chist>>

\* the error left in error_mutex by the loop of lines 453-457: each Err of
\* results, in the order of the snapshot, is stored over the one before
RECURSIVE LastError(_, _)
LastError(uerr, e) ==
    IF uerr = <<>> THEN e
    ELSE LastError(Tail(uerr), IF Head(uerr) # "none" THEN Head(uerr) ELSE e)

\* FrameReturn leaving the parallel phase as soon as one unit has failed
FrameReturn_FailFast(s) ==
    /\ frames[s].phase = "par"
    /\ \/ \A j \in DOMAIN frames[s].units : frames[s].units[j] \in {"ok", "err"}
       \/ \E j \in DOMAIN frames[s].units : frames[s].units[j] = "err"
    /\ LET e == LastError(frames[s].uerr, "none") IN
       frames' = [frames EXCEPT ![s].phase = "ret",
                                ![s].ret = IF e # "none" THEN e ELSE "Ok"]
    /\ UNCHANGED <<archive, fsVars, init_fs, extractVars, analyzeVars, source,
                   target, cpc, cresult, chist>>

\* lines 450-463: all units of the level are collected; the level returns
FrameReturn(s) ==
    /\ frames[s].phase = "par"
    /\ \A j \in DOMAIN frames[s].units : frames[s].units[j] \in {"ok", "err"}
    /\ LET e == LastError(frames[s].uerr, "none") IN
       frames' = [frames EXCEPT ![s].phase = "ret",
                                ![s].ret = IF e # "none" THEN e ELSE "Ok"]
    /\ UNCHANGED <<archive, fsVars, init_fs, extractVars, analyzeVars, source,
                   target, cpc, cresult, chist>>

\* lines 211-212: copy_dir_recursive has returned to copy_directory
CopyReturn ==
    /\ cpc = "copy"
    /\ frames[source].ret # "none"
    /\ cpc' = "done"
    /\ cresult' = IF frames[source].ret = "Ok" THEN Ok
                  ELSE Err("Failed to copy directory", <<>>, frames[source].ret)
    /\ UNCHANGED <<archive, fsVars, init_fs, extractVars, analyzeVars, source,
                   target, frames, chist>>

NoCopyHist == [copies |-> 0, copied |-> {}, entered |-> {}]

CopyIdle ==
    /\ source = <<>> /\ target = <<>> /\ cpc = "idle" /\ frames = NoFrames
    /\ cresult = NoResult /\ chist = NoCopyHist

(***************************************************************************)
(* analyze_zip_content                                                     *)
(***************************************************************************)
AnalyzeNames ==
    { <<"a", "/">>,                                          \* a/
      <<"a", "\\">>,                                         \* a\
      <<"l", "i", "n", "k", "/">>,                           \* link/
      <<"R", "E", "A", "D", "M", "E", ".", "t", "x", "t">>,  \* README.txt
      <<"m", ".", "p", "a", "c", "k", "a", "g", "e">>,       \* m.package
      <<"M", ".", "P", "A", "C", "K", "A", "G", "E">>,       \* M.PACKAGE
      <<"r", "e", "a", "d", "m", "e", ".", "p", "a", "c", "k", "a", "g", "e">>,
                                                             \* readme.package
      <<"m", ".", "t", "s", "4", "s", "c", "r", "i", "p", "t">>,  \* m.ts4script
      <<"b", ".", "l", "n", "k">>,                           \* b.lnk
      <<"a", "/", "d", ".", "b", "i", "n">> }                \* a/d.bin

\* line 243
suspicious_extensions ==
    { <<".", "u", "r", "l">>, <<".", "l", "n", "k">>, <<".", "h", "t", "m", "l">>,
      <<".", "h", "t", "m">>, <<".", "w", "e", "b", "l", "o", "c">> }

\* line 244
suspicious_names ==
    { <<"r", "e", "a", "d", "m", "e">>, <<"p", "a", "t", "r", "e", "o", "n">>,
      <<"s", "u", "p", "p", "o", "r", "t">>, <<"d", "o", "n", "a", "t", "e">>,
      <<"l", "i", "n", "k">>, <<"d", "i", "s", "c", "o", "r", "d">> }

DotPackage  == <<".", "p", "a", "c", "k", "a", "g", "e">>
DotTs4Script == <<".", "t", "s", "4", "s", "c", "r", "i", "p", "t">>

\* IsDirectoryEntry testing the forward slash only
IsDirectoryEntry_SlashOnly(name) == ends_with(name, <<Slash>>)

\* line 252: the test that skips directory entries
IsDirectoryEntry(name) ==
    ends_with(name, <<Slash>>) \/ ends_with(name, <<Backslash>>)

\* is_suspicious testing the name as written instead of its lowercase form
is_suspicious_CaseSensitive(name) ==
    \/ \E ext \in suspicious_extensions : ends_with(name, ext)
    \/ \E pattern \in suspicious_names : contains(name, pattern)

\* lines 267-270
is_suspicious(name) ==
    LET name_lower == to_lowercase(name) IN
    \/ \E ext \in suspicious_extensions : ends_with(name_lower, ext)
    \/ \E pattern \in suspicious_names : contains(name_lower, pattern)

NoAnalysis ==
    [tag |-> "none", has_package_files |-> FALSE, has_ts_script |-> FALSE,
     file_list |-> <<>>, suspicious_files |-> <<>>, total_files |-> 0]

AnalyzeErr(m) == [NoAnalysis EXCEPT !.tag = m]

\* lines 234-235: File::open and ZipArchive::new
AnalyzeOpen ==
    /\ apc = "open"
    /\ \E ok \in BOOLEAN :
         IF ok
         THEN /\ apc' = IF archive # <<>> THEN "scan" ELSE "ret"
              /\ aresult' = aresult
         ELSE /\ apc' = "done"
              /\ aresult' = AnalyzeErr("Failed to open ZIP")
    /\ UNCHANGED <<archive, fsVars, init_fs, extractVars, copyVars, ai,
                   has_package_files, has_ts_script, file_list, suspicious_files>>

\* lines 246-275: one iteration of the scan
AnalyzeEntry ==
    /\ apc = "scan"
    /\ ai <= Len(archive)
    /\ \E ok \in BOOLEAN :
         IF ~ok
         THEN /\ apc' = "done"
              /\ aresult' = AnalyzeErr("Failed to read ZIP entry")
              /\ UNCHANGED <<ai, has_package_files, has_ts_script, file_list,
                             suspicious_files>>
         ELSE LET name == archive[ai].name
                  name_lower == to_lowercase(name)
              IN
              /\ IF IsDirectoryEntry(name)
                 THEN UNCHANGED <<has_package_files, has_ts_script, file_list,
                                  suspicious_files>>
                 ELSE /\ file_list' = Append(file_list, name)
                      /\ has_package_files' =
                            (has_package_files \/ ends_with(name_lower, DotPackage))
                      /\ has_ts_script' =
                            (has_ts_script \/ ends_with(name_lower, DotTs4Script))
                      /\ suspicious_files' =
                            IF is_suspicious(name)
                            THEN Append(suspicious_files, name)
                            ELSE suspicious_files
              /\ IF ai < Len(archive)
                 THEN ai' = ai + 1 /\ apc' = apc
                 ELSE ai' = ai /\ apc' = "ret"
              /\ aresult' = aresult
    /\ UNCHANGED <<archive, fsVars, init_fs, extractVars, copyVars>>

\* lines 277-283: the report
AnalyzeReturn ==
    /\ apc = "ret"
    /\ apc' = "done"
    /\ aresult' = [tag |-> "Ok",
                   has_package_files |-> has_package_files,
                   has_ts_script |-> has_ts_script,
                   file_list |-> file_list,
                   suspicious_files |-> suspicious_files,
                   total_files |-> Len(archive)]
    /\ UNCHANGED <<archive, fsVars, init_fs, extractVars, copyVars, ai,
                   has_package_files, has_ts_script, file_list, suspicious_files>>

AnalyzeIdle ==
    /\ apc = "idle" /\ ai = 1
    /\ has_package_files = FALSE /\ has_ts_script = FALSE
    /\ file_list = <<>> /\ suspicious_files = <<>>
    /\ aresult = NoAnalysis

ExtractIdle ==
    /\ pc = "idle" /\ i = 1 /\ files_to_create = <<>> /\ dirs_to_create = <<>>
    /\ error_mutex = None /\ wstate = <<>> /\ werr = <<>>
    /\ result = NoResult /\ hist = NoHist

Init ==
    /\ archive \in Archives(ExtractNames, MaxEntries)
    /\ \E fs \in InitialFs : dirs = fs.dirs /\ files = fs.files /\ init_fs = fs
    /\ pc = "open" /\ i = 1 /\ files_to_create = <<>> /\ dirs_to_create = <<>>
    /\ error_mutex = None /\ wstate = <<>> /\ werr = <<>>
    /\ result = NoResult /\ hist = NoHist
    /\ CopyIdle
    /\ AnalyzeIdle

Next ==
    \/ OpenArchive
    \/ ReadEntry
    \/ CreateDir
    \/ CreateParentDir
    \/ \E k \in DOMAIN wstate : WorkerCheck(k)
    \/ \E k \in DOMAIN wstate : WorkerWrite(k)
    \/ \E k \in DOMAIN wstate : WorkerRecord(k)
    \/ ExtractReturn

Spec == Init /\ [][Next]_vars

InitAnalyze ==
    /\ archive \in Archives(AnalyzeNames, MaxAnalyzeEntries)
    /\ dirs = {<<>>} /\ files = NoFiles /\ init_fs = [dirs |-> {<<>>}, files |-> NoFiles]
    /\ ExtractIdle
    /\ CopyIdle
    /\ apc = "open" /\ ai = 1
    /\ has_package_files = FALSE /\ has_ts_script = FALSE
    /\ file_list = <<>> /\ suspicious_files = <<>>
    /\ aresult = NoAnalysis

NextAnalyze ==
    \/ AnalyzeOpen
    \/ AnalyzeEntry
    \/ AnalyzeReturn

SpecAnalyze == InitAnalyze /\ [][NextAnalyze]_vars

(***************************************************************************)
(* Properties of analyze_zip_content.                                      *)
(***************************************************************************)
Range(s) == {s[k] : k \in DOMAIN s}

EntryNames == [k \in DOMAIN archive |-> archive[k].name]

LastChar(name) == IF name = <<>> THEN "" ELSE name[Len(name)]

\* a name ending in '/' or '\'
DirectoryMarker(name) == LastChar(name) \in {"/", "\\"}

RECURSIVE IsSubsequence(_, _)
IsSubsequence(s, t) ==
    IF s = <<>> THEN TRUE
    ELSE IF t = <<>> THEN FALSE
    ELSE IF Head(s) = Head(t) THEN IsSubsequence(Tail(s), Tail(t))
    ELSE IsSubsequence(s, Tail(t))

\* C9: the report lists in file_list, in archive order, exactly the entry
\* names that do not end in '/' or '\'; suspicious_files is a subsequence
\* of file_list; no directory marker is in either list; total_files is the
\* raw number of entries, so it exceeds the length of file_list by the
\* number of directory markers.
C9_Listing ==
    aresult.tag = "Ok" =>
        /\ aresult.file_list =
              SelectSeq(EntryNames, LAMBDA n : ~DirectoryMarker(n))
        /\ IsSubsequence(aresult.suspicious_files, aresult.file_list)
        /\ \A n \in Range(aresult.file_list) \cup Range(aresult.suspicious_files) :
              ~DirectoryMarker(n)
        /\ aresult.total_files = Len(archive)
        /\ aresult.total_files - Len(aresult.file_list) =
              Cardinality({k \in DOMAIN archive : DirectoryMarker(archive[k].name)})

\* a report for an archive with both kinds of directory marker and a file
C9_Witness ==
    /\ aresult.tag = "Ok"
    /\ \E j, k \in DOMAIN archive :
          /\ archive[j].name = <<"a", "/">>
          /\ archive[k].name = <<"a", "\\">>
    /\ Len(aresult.file_list) = 1
    /\ aresult.total_files = 3

\* the lowercased name ends with a suspicious extension or contains a
\* suspicious substring
SuspiciousName(n) ==
    LET low == to_lowercase(n) IN
    \E k \in 1..Len(low) :
        \/ \E e \in suspicious_extensions : k = Len(low) - Len(e) + 1
                                              /\ SubSeq(low, k, Len(low)) = e
        \/ \E w \in suspicious_names : k + Len(w) - 1 <= Len(low)
                                         /\ SubSeq(low, k, k + Len(w) - 1) = w

PackageName(n) ==
    LET low == to_lowercase(n) IN
    /\ Len(low) >= Len(DotPackage)
    /\ \A k \in 1..Len(DotPackage) : low[Len(low) - Len(DotPackage) + k] = DotPackage[k]

ReadmeTxt == <<"R", "E", "A", "D", "M", "E", ".", "t", "x", "t">>

\* C10: has_package_files holds iff some non-directory entry's lowercased
\* name ends with ".package", suspicious or not; a non-directory entry is
\* in suspicious_files iff its lowercased name ends with a suspicious
\* extension or contains a suspicious substring, package or not; and an
\* archive whose only file is README.txt yields has_package_files = FALSE
\* and README.txt in suspicious_files.
C10_Independent ==
    aresult.tag = "Ok" =>
        LET NonDir == {k \in DOMAIN archive : ~DirectoryMarker(archive[k].name)} IN
        /\ aresult.has_package_files <=> \E k \in NonDir : PackageName(archive[k].name)
        /\ \A k \in NonDir :
              archive[k].name \in Range(aresult.suspicious_files)
                 <=> SuspiciousName(archive[k].name)
        /\ {archive[k].name : k \in NonDir} = {ReadmeTxt} =>
              /\ ~aresult.has_package_files
              /\ ReadmeTxt \in Range(aresult.suspicious_files)

\* a report for an archive holding README.txt, a file that is both a
\* package and suspicious, and a package written in upper case
C10_Witness ==
    /\ aresult.tag = "Ok"
    /\ ReadmeTxt \in Range(aresult.suspicious_files)
    /\ \E n \in Range(aresult.suspicious_files) : PackageName(n)
    /\ \E n \in Range(aresult.file_list) : PackageName(n) /\ ~SuspiciousName(n)

(***************************************************************************)
(* Inputs of copy_directory.                                               *)
(***************************************************************************)
FileMap(S) == [q \in {x[1] : x \in S} |-> (CHOOSE x \in S : x[1] = q)[2]]

Merge(a, b) == [q \in DOMAIN a \cup DOMAIN b |-> IF q \in DOMAIN a THEN a[q] ELSE b[q]]

SrcPath == << <<"P">>, <<"S">> >>            \* source = "/P/S"
TgtPath == << <<"T">> >>                     \* target = "/T"

Sub(p, names) == p \o [k \in DOMAIN names |-> <<names[k]>>]

\* the source trees copy_directory is called on
SourceTrees ==
    { [dirs |-> {}, files |-> NoFiles],
      [dirs |-> {SrcPath}, files |-> NoFiles],
      [dirs |-> {SrcPath}, files |-> FileMap({<<Sub(SrcPath, <<"f">>), <<1>>>>})],
      [dirs |-> {SrcPath, Sub(SrcPath, <<"d">>)},
       files |-> FileMap({<<Sub(SrcPath, <<"f">>), <<1>>>>,
                          <<Sub(SrcPath, <<"d", "g">>), <<2>>>>})],
      [dirs |-> {SrcPath, Sub(SrcPath, <<"d">>), Sub(SrcPath, <<"d", "e">>)},
       files |-> FileMap({<<Sub(SrcPath, <<"d", "e", "h">>), <<3>>>>})],
      [dirs |-> {SrcPath, Sub(SrcPath, <<"d">>), Sub(SrcPath, <<"d", "e">>)},
       files |-> FileMap({<<Sub(SrcPath, <<"f">>), <<1>>>>})] }

\* the targets, with what they hold before the call
TargetCases ==
    { [target |-> TgtPath, dirs |-> {}, files |-> NoFiles],
      [target |-> TgtPath, dirs |-> {TgtPath}, files |-> NoFiles],
      [target |-> TgtPath, dirs |-> {TgtPath},
       files |-> FileMap({<<Sub(TgtPath, <<"z">>), OldBytes>>})],
      [target |-> TgtPath, dirs |-> {TgtPath, Sub(TgtPath, <<"d">>)},
       files |-> FileMap({<<Sub(TgtPath, <<"f">>), OldBytes>>,
                          <<Sub(TgtPath, <<"d", "z">>), OldBytes>>})],
      [target |-> TgtPath, dirs |-> {}, files |-> FileMap({<<TgtPath, OldBytes>>})],
      [target |-> SrcPath, dirs |-> {}, files |-> NoFiles],
      [target |-> Parent(SrcPath), dirs |-> {}, files |-> NoFiles],
      [target |-> Sub(SrcPath, <<"d">>), dirs |-> {}, files |-> NoFiles] }

InitCopy ==
    /\ archive = <<>>
    /\ \E tree \in SourceTrees, tc \in TargetCases :
         /\ dirs = {<<>>, Parent(SrcPath)} \cup tree.dirs \cup tc.dirs
         /\ files = Merge(tree.files, tc.files)
         /\ target = tc.target
    /\ init_fs = [dirs |-> dirs, files |-> files]
    /\ source = SrcPath
    /\ cpc = "start" /\ frames = NoFrames /\ cresult = NoResult
    /\ chist = NoCopyHist
    /\ ExtractIdle
    /\ AnalyzeIdle

NextCopy ==
    \/ CopyRemoveTarget
    \/ CopyCreateTarget
    \/ \E s \in DOMAIN frames : FrameList(s)
    \/ \E s \in DOMAIN frames : FrameMkdir(s)
    \/ \E s \in DOMAIN frames : \E j \in DOMAIN frames[s].units : UnitStart(s, j)
    \/ \E s \in DOMAIN frames : \E j \in DOMAIN frames[s].units : UnitJoin(s, j)
    \/ \E s \in DOMAIN frames : FrameReturn(s)
    \/ CopyReturn

SpecCopy == InitCopy /\ [][NextCopy]_vars

(***************************************************************************)
(* Properties of copy_directory.                                           *)
(***************************************************************************)
\* C2: while a level of copy_dir_recursive runs, its own target directory
\* exists (so every file copy and every recursive call finds the directory
\* it writes into), and once the level is in its parallel phase the target
\* directory of every directory child of its snapshot exists, before any
\* unit has started as well as after.
C2_LevelDirsBeforeUnits ==
    \A s \in DOMAIN frames :
        LET f == frames[s] IN
        /\ f.phase \in {"list", "mkdir", "par"} => IsDir(dirs, f.dst)
        /\ f.phase = "par" =>
              \A j \in DOMAIN f.entries :
                 IsDir(dirs, Append(s, f.entries[j]))
                    => IsDir(dirs, Append(f.dst, f.entries[j]))

\* a recursive call, two levels down, has copied a file into a directory
\* that its parent level created
C2_Witness ==
    \E s \in DOMAIN frames :
        /\ Len(s) = Len(source) + 2
        /\ frames[s].phase = "par"
        /\ \E j \in DOMAIN frames[s].units : frames[s].units[j] = "ok"
        /\ frames[s].dst \notin init_fs.dirs

\* the tree below root, by relative paths
RelTree(ds, fl, root) ==
    [dirs  |-> {SubSeq(q, Len(root) + 1, Len(q)) : q \in {x \in ds : IsPrefix(root, x)}},
     files |-> {<<SubSeq(q, Len(root) + 1, Len(q)), fl[q]>> :
                   q \in {x \in DOMAIN fl : IsPrefix(root, x)}}]

EmptyTree == [dirs |-> {<<>>}, files |-> {}]

Overlap(p, q) == IsPrefix(p, q) \/ IsPrefix(q, p)

\* C7: when copy_directory returns Ok, the tree below the target is the
\* tree below the source, path for path and content for content, so
\* nothing else that was in the target before is left; when neither path
\* lies within the other this is the source tree as it was at the call.
\* And when copy_dir_recursive is entered, the target is an empty directory.
C7_ReplaceSemantics ==
    /\ cresult.tag = "Ok" =>
          /\ RelTree(dirs, files, target) = RelTree(dirs, files, source)
          /\ ~Overlap(source, target) =>
                RelTree(dirs, files, target)
                   = RelTree(init_fs.dirs, init_fs.files, source)
    /\ (cpc = "copy" /\ frames[source].phase = "list") =>
          RelTree(dirs, files, target) = EmptyTree

\* Ok for a source with a file and a subdirectory, copied over a target
\* that held a file of the same name and a file the source does not have
C7_Witness ==
    /\ cresult.tag = "Ok"
    /\ Sub(TgtPath, <<"d", "z">>) \in DOMAIN init_fs.files
    /\ Sub(TgtPath, <<"d", "g">>) \in DOMAIN files
    /\ files[Sub(TgtPath, <<"f">>)] = <<1>>

(***************************************************************************)
(* extract_zip and analyze_zip_content on the same archive.                *)
(***************************************************************************)
\* lines 246-256 run to the end: the file_list analyze_zip_content reports
AnalyzedFileList(arch) ==
    SelectSeq([k \in DOMAIN arch |-> arch[k].name],
              LAMBDA name : ~IsDirectoryEntry(name))

RecordNames == [k \in DOMAIN files_to_create |-> files_to_create[k].name]

\* C11 (as claimed): no pending write record is made, and no file is
\* written, for an entry whose name ends in '/' or '\'; and once the first
\* pass is over the records extract_zip writes are the entries that
\* analyze_zip_content lists in file_list.
C11_SeparatorMeansDirectory ==
    /\ \A k \in DOMAIN files_to_create : ~DirectoryMarker(files_to_create[k].name)
    /\ pc \in {"mkdirs", "mkparents", "par"} => RecordNames = AnalyzedFileList(archive)

(***************************************************************************)
(* Termination.  One call of extract_zip or one call of copy_directory,    *)
(* with the scheduler never leaving the call without a step while one of   *)
(* its steps is possible.  Each lock() at lines 61, 67, 455 and 459 is     *)
(* released at the end of its own statement and no statement takes the     *)
(* lock twice, so a locked statement is one step.                          *)
(***************************************************************************)
\* the entry names of the archives extracted here: a directory entry, a
\* file below a directory and a file at the top
LiveNames == { <<"a", "/">>, <<"a", "/", "b">>, <<"c">> }

InitLive ==
    \/ Init /\ \A k \in DOMAIN archive : archive[k].name \in LiveNames
    \/ InitCopy

NextLive == Next \/ NextCopy

SpecLive == InitLive /\ [][NextLive]_vars /\ WF_vars(Next) /\ WF_vars(NextCopy)

AllNeededDirsExisted == \A d \in NeededDirs : IsDir(init_fs.dirs, d)

\* C13 (as claimed): on a destination where every needed directory already
\* exists, the set of directories is never changed and extract_zip returns
\* Ok, unless the archive cannot be opened or read or a write meets an I/O
\* failure.
C13_WholeCallSucceeds ==
    AllNeededDirsExisted =>
        /\ dirs = init_fs.dirs
        /\ pc = "done" => \/ result.tag = "Ok"
                          \/ result.cause \in {"EOPEN", "EREAD", "EIO"}

\* C13 (amended): on a destination where every needed directory already
\* exists, every create_dir_all call of the directory phase is made and
\* succeeds, the set of directories is never changed, and extract_zip
\* returns Err only for a failure to open or read the archive or to write
\* a file, never for a directory.
C13_DirectoryPhaseIdempotent ==
    AllNeededDirsExisted =>
        /\ dirs = init_fs.dirs
        /\ hist.mkdirErr = "none"
        /\ (pc \in {"par", "done"} /\ result.cause \notin {"EOPEN", "EREAD"})
              => hist.mkdirs = DirCallsNeeded
        /\ (pc = "done" /\ result.tag = "Err")
              => \/ result.cause \in {"EOPEN", "EREAD"}
                 \/ result.msg = "Failed to write"

\* extract_zip has returned Ok from a run that called create_dir_all for an
\* explicit directory entry and for a parent, all of which existed before
C13_Witness ==
    /\ AllNeededDirsExisted
    /\ pc = "done" /\ result.tag = "Ok"
    /\ Len(dirs_to_create) > 0
    /\ hist.mkdirs >= 2
    /\ DestDir \o << <<"a">> >> \in init_fs.dirs

(***************************************************************************)
(* The error a level of copy_dir_recursive returns.                        *)
(***************************************************************************)
\* the first error of uerr in the order of the snapshot
RECURSIVE FirstError(_)
FirstError(uerr) ==
    IF uerr = <<>> THEN "none"
    ELSE IF Head(uerr) # "none" THEN Head(uerr) ELSE FirstError(Tail(uerr))

\* C14 (as claimed): a level whose parallel units failed returns the error
\* of the unit that failed first; the error of a unit that failed later in
\* time, or that comes later in the snapshot, does not replace it.
C14_FirstFailureReturned ==
    \A s \in DOMAIN frames :
        (frames[s].phase = "ret" /\ frames[s].first # "none") =>
            \/ frames[s].ret = frames[s].first
            \/ frames[s].ret = FirstError(frames[s].uerr)

(***************************************************************************)
(* The return of extract_zip and its workers.                              *)
(***************************************************************************)
\* no closure of the parallel phase was ever started
NoWorkerStarted ==
    /\ \A k \in DOMAIN wstate : wstate[k] = "todo" /\ hist.attempts[k] = 0
    /\ hist.skipped = {}

\* C15: when extract_zip has returned, no worker is running or has a write
\* pending: either every worker has finished and the result is what the
\* slot holds, or the call returned Err before the parallel phase and no
\* worker was started; and after the return no file is written and no
\* worker moves.
C15_ReturnsAfterAllWorkers ==
    /\ [](pc = "done" =>
            \/ /\ \A k \in DOMAIN wstate : wstate[k] = "done"
               /\ result.tag = "Ok" \/ result.msg = "Failed to write"
               /\ result.tag = "Err" <=> error_mutex.tag = "Some"
            \/ /\ NoWorkerStarted
               /\ result.tag = "Err" /\ result.msg # "Failed to write")
    /\ [][pc = "done" => /\ files' = files
                         /\ wstate' = wstate
                         /\ hist' = hist
                         /\ result' = result]_vars

\* extract_zip has returned Err from the parallel phase: one worker failed,
\* another wrote its file, and both had finished
C15_Witness ==
    /\ pc = "done" /\ result.msg = "Failed to write"
    /\ Len(wstate) >= 2
    /\ \A k \in DOMAIN wstate : wstate[k] = "done"
    /\ hist.failed # {}
    /\ \E k \in DOMAIN wstate : hist.oks[k] = 1

(***************************************************************************)
(* The first pass of extract_zip over the archive.                         *)
(***************************************************************************)
AllEntriesRead == hist.reads = [k \in 1..Len(archive) |-> k]

PastFirstPass ==
    \/ pc \in {"mkdirs", "mkparents", "par"}
    \/ hist.mkdirs > 0
    \/ hist.skipped # {}
    \/ \E k \in DOMAIN wstate : wstate[k] # "todo" \/ hist.attempts[k] > 0

\* C16: the entries are read one at a time in the order 1..len, by the
\* first pass only; while the pass runs no directory has been created, no
\* worker has started and the filesystem is as it was at the call; and
\* every entry has been read before the first directory is created or the
\* first worker starts.
C16_DrainedBeforeAnyWrite ==
    /\ [](/\ \A k \in DOMAIN hist.reads : hist.reads[k] = k
          /\ Len(hist.reads) <= Len(archive)
          /\ PastFirstPass => AllEntriesRead
          /\ pc \in {"open", "read"} => /\ dirs = init_fs.dirs
                                        /\ files = init_fs.files
                                        /\ ~PastFirstPass)
    /\ [][hist'.reads # hist.reads =>
            /\ pc = "read" /\ ~PastFirstPass
            /\ hist'.reads = Append(hist.reads, Len(hist.reads) + 1)
            /\ dirs' = dirs /\ files' = files]_vars

\* both entries of an archive were read, then a directory was created and
\* a worker wrote a file
C16_Witness ==
    /\ Len(archive) = 2
    /\ AllEntriesRead
    /\ hist.mkdirs > 0
    /\ \E k \in DOMAIN wstate : hist.oks[k] = 1

(***************************************************************************)
(* The units of a level of copy_dir_recursive.                             *)
(***************************************************************************)
\* the source paths of the snapshot of level s
SnapshotPaths(s) == {Append(s, frames[s].entries[j]) : j \in DOMAIN frames[s].entries}

\* the level of copy_dir_recursive that processed the source path p
IsLevel(s) == s \in DOMAIN frames /\ frames[s].lists > 0

\* C17: every level lists its directory at most once, and once when it is
\* past its listing; a unit starts at most once, for a child of the
\* snapshot and with the target of the same name; every file copied and
\* every directory entered is a child of the snapshot of its level; and a
\* level that returns from its parallel phase has started every unit of
\* its snapshot exactly once, whether or not a sibling failed.
C17_SnapshotProcessedOnce ==
    /\ \A s \in DOMAIN frames :
         LET f == frames[s] IN
         /\ f.lists = IF f.phase = "list" THEN 0 ELSE 1
         /\ \A j \in DOMAIN f.starts :
              /\ f.starts[j] = IF f.units[j] = "todo" THEN 0 ELSE 1
              /\ f.units[j] # "todo" =>
                   LET pair == <<Append(s, f.entries[j]), Append(f.dst, f.entries[j])>>
                   IN pair \in chist.copied \cup chist.entered
         /\ \A j, k \in DOMAIN f.entries : j # k => f.entries[j] # f.entries[k]
         /\ f.phase = "ret" =>
              \/ \A j \in DOMAIN f.starts :
                   f.starts[j] = 1 /\ f.units[j] \in {"ok", "err"}
              \/ /\ f.ret # "Ok" /\ f.first = "none"
                 /\ \A j \in DOMAIN f.starts : f.starts[j] = 0
    /\ \A pair \in chist.copied \cup chist.entered :
         LET p == pair[1] IN
         /\ HasParent(p) /\ IsLevel(Parent(p))
         /\ p \in SnapshotPaths(Parent(p))
         /\ pair[2] = Append(frames[Parent(p)].dst, p[Len(p)])
    /\ chist.copies = Cardinality(chist.copied)
    /\ \A s \in DOMAIN frames : s = source \/ \E pair \in chist.entered : pair[1] = s

\* a level has returned after one of its units failed and a sibling unit,
\* started after that failure, was copied
C17_Witness ==
    \E s \in DOMAIN frames :
        LET f == frames[s] IN
        /\ f.phase = "ret" /\ f.first # "none"
        /\ f.lists = 1
        /\ f.after >= 1
        /\ Len(f.units) >= 2
        /\ \E j \in DOMAIN f.units : f.units[j] = "ok"
        /\ \A j \in DOMAIN f.starts : f.starts[j] = 1

(***************************************************************************)
(* Where extract_zip writes.                                               *)
(***************************************************************************)
\* the files extract_zip has created or whose content it has changed
WrittenFiles == {q \in DOMAIN files : q \notin DOMAIN init_fs.files \/ files[q] # init_fs.files[q]}

\* C18 (as claimed): every directory extract_zip has created and every file
\* it has written is dest_dir or lies below it.
C18_WritesInsideDestDir ==
    /\ \A d \in dirs \ init_fs.dirs : IsPrefix(DestDir, d)
    /\ \A q \in WrittenFiles : IsPrefix(DestDir, q)

(***************************************************************************)
(* The source tree of copy_directory.                                      *)
(***************************************************************************)
\* C19 (as claimed): at every point of a call of copy_directory, and after
\* it, the directories and files under the source and their contents are
\* what they were at the call.
C19_SourceUnchanged ==
    /\ DirsUnder(dirs, source) = DirsUnder(init_fs.dirs, source)
    /\ FilesUnder(files, source) = FilesUnder(init_fs.files, source)
    /\ \A q \in FilesUnder(files, source) : files[q] = init_fs.files[q]

(***************************************************************************)
(* The files left by the parallel phase of extract_zip under its possible  *)
(* schedules.                                                              *)
(***************************************************************************)
\* lines 58-70 when every closure writes: the files after the records are
\* written in the order `order`, starting at its k-th element
RECURSIVE WriteInOrder(_, _, _)
WriteInOrder(fl, order, k) ==
    IF k > Len(order) THEN fl
    ELSE WriteInOrder(FsWrite(dirs, fl, OutPath(order[k]),
                              files_to_create[order[k]].content, FALSE).files,
                      order, k + 1)

\* one final set of files per order in which the closures can run
ScheduleOutcomes ==
    {WriteInOrder(init_fs.files, o, 1) : o \in Orders(DOMAIN files_to_create)}

\* C20 (as claimed): after Ok the files are the same whatever the order in
\* which the workers ran: the files of the run equal the outcome of every
\* schedule of the same records on the same initial destination.
C20_ScheduleIndependent ==
    (pc = "done" /\ result.tag = "Ok") => \A o \in ScheduleOutcomes : files = o

\* after Ok the files are the outcome of one of the schedules
OkIsOutcomeOfASchedule ==
    (pc = "done" /\ result.tag = "Ok") => files \in ScheduleOutcomes

\* the two runs of the archive [c, c] on the empty destination /D
TwoEntriesNamedC ==
    /\ Len(archive) = 2
    /\ \A k \in DOMAIN archive : archive[k].name = <<"c">>
    /\ init_fs = [dirs |-> {<<>>, DestDir}, files |-> NoFiles]
    /\ pc = "done" /\ result.tag = "Ok"

FirstEntryLeft  == TwoEntriesNamedC /\ files[DestDir \o << <<"c">> >>] = Bytes(1)
SecondEntryLeft == TwoEntriesNamedC /\ files[DestDir \o << <<"c">> >>] = Bytes(2)

=============================================================================
